---- MODULE Spec2Model ----
(***************************************************************************)
(* Model of the MiniMax Coding Plan quota adapter                          *)
(* (src/plugin/lib/minimax.ts, src/plugin/lib/types.ts).                   *)
(*                                                                         *)
(* One query runs as a chain of continuations separated by its awaits:     *)
(*   Invoke         queryMiniMaxUsage is called, readFile is issued        *)
(*   SessionLoaded  readFile settles, the session is checked, the HTTP     *)
(*                  request is issued (or the config-required result       *)
(*                  is returned)                                           *)
(*   HttpSettled    fetchWithTimeout settles (response or thrown error)    *)
(*   BodyRead       the body is read, the envelope checked, the report     *)
(*                  formatted and the result returned                      *)
(*                                                                         *)
(* JavaScript values:                                                      *)
(*   an optional value (undefined / null / absent key) is <<>>, a present  *)
(*   value v is <<v>>;                                                     *)
(*   a number produced by a division (a percentage) is an exact fraction   *)
(*   [n, d] with d > 0; on the inputs drawn here the double computed by    *)
(*   the code differs from it by less than 1e-12 and compares with 80, 0   *)
(*   and 100 the same way;                                                 *)
(*   a string built from a template of the i18n table is the record of     *)
(*   the template's name and its arguments;                                *)
(*   the text lines.join("\n") is the sequence of its lines.               *)
(***************************************************************************)
EXTENDS Integers, Sequences, FiniteSets, TLC

VARIABLES
    pc,         \* position of the current query: idle, readFile, http, body, done
    queries,    \* number of queries invoked so far
    home,       \* whether os.homedir() resolves for the current query
    file,       \* what readFile / JSON.parse found for the current query
    session,    \* const session of queryMiniMaxUsage
    net,        \* how the HTTP call of the current query settled
    now,        \* Date.now() read by the formatter
    httpCalls,  \* HTTP requests issued by the current query
    caught,     \* exception caught by the try/catch of queryMiniMaxUsage
    escaped,    \* exception that left queryMiniMaxUsage (rejected promise)
    result,     \* <<r>> once the promise of queryMiniMaxUsage resolved to r
    trace       \* steps of the current query, in order

vars == <<pc, queries, home, file, session, net, now, httpCalls, caught, escaped, result, trace>>

----------------------------------------------------------------------------
(* Bounds and program constants *)

MaxQueries == 2

HIGH_USAGE_THRESHOLD == 80

----------------------------------------------------------------------------
(* JavaScript optional values and completions *)

Absent == <<>>

Some(v) == <<v>>

Get(x) == x[1]

Has(x) == x /= Absent

\* a ?? b
Coalesce(a, b) == IF Has(a) THEN Get(a) ELSE b

\* truthiness of an optional string / of an optional number
TruthyStr(x) == Has(x) /\ Get(x) /= ""

TruthyNum(x) == Has(x) /\ Get(x) /= 0

Return(v) == [threw |-> FALSE, value |-> v]

Throw(e) == [threw |-> TRUE, value |-> e]

Max(a, b) == IF a >= b THEN a ELSE b

----------------------------------------------------------------------------
(* Inputs from the environment *)

\* os.homedir(): it returns the home directory, or it throws when HOME is not
\* set and the user has no passwd entry
Homes == {"resolved", "unresolved"}

\* values of the "session" key of the credential file
SessionValues == {Absent, Some(""), Some("MTc3MTA2NDA0Nnx")}

\* what readFile and JSON.parse find at ~/.config/opencode/minimax-session.json:
\* no file, a file that is not JSON, the JSON value null, a JSON object
Files ==
    {[kind |-> k, session |-> Absent] : k \in {"missing", "malformed", "null"}}
    \cup {[kind |-> "object", session |-> s] : s \in SessionValues}

PlanNames == {Absent, Some("Plus")}

TotalValues == {Absent, Some(0), Some(5), Some(100)}

UsedValues == {Absent, Some(0), Some(4), Some(79), Some(85)}

RemainingValues == {Absent, Some(1), Some(15), Some(120)}

PercentValues == {Absent, Some(0), Some(79), Some(80), Some(100)}

ResetValues == {Absent, Some(0), Some(4500), Some(5000), Some(6500), Some(3605000)}

\* values of Date.now(), in ms
Nows == {5000, 6000}

\* the "data" object of the envelope
DataValues ==
    [plan_name : PlanNames, total_prompts : TotalValues, used_prompts : UsedValues,
     remaining_prompts : RemainingValues, next_reset_time : ResetValues,
     usage_percentage : PercentValues]

BaseResp(code, msg) == [status_code |-> code, status_msg |-> msg]

\* an HTTP outcome: kind is timeout / network (fetchWithTimeout throws) or
\* response; parse is what reading the body gives: unreadable (the stream
\* fails while it is read, so response.text() and response.json() reject),
\* syntaxError (the text is read and is not JSON, response.json() throws),
\* null (the JSON value null) or object
NetOutcome(kind, status, text, parse, base_resp, data) ==
    [kind |-> kind, status |-> status, text |-> text, parse |-> parse,
     base_resp |-> base_resp, data |-> data]

NoNet == NetOutcome("none", 0, "", "syntaxError", Absent, Absent)

NetOutcomes ==
    {NetOutcome(k, 0, "", "syntaxError", Absent, Absent) : k \in {"timeout", "network"}}
    \cup {NetOutcome("response", st, tx, "syntaxError", Absent, Absent) :
             st \in {401, 500}, tx \in {"", "Unauthorized"}}
    \cup {NetOutcome("response", st, "", "unreadable", Absent, Absent) : st \in {200, 401, 500}}
    \cup {NetOutcome("response", 200, "", p, Absent, Absent) : p \in {"syntaxError", "null", "object"}}
    \cup {NetOutcome("response", 200, "", "object", Some(BaseResp(c, m)), Absent) :
             c \in {Absent, Some(1004)}, m \in {Absent, Some(""), Some("invalid session")}}
    \cup {NetOutcome("response", 200, "", "object", Some(BaseResp(Some(0), Some("success"))), d) :
             d \in {Absent} \cup {Some(x) : x \in DataValues}}

----------------------------------------------------------------------------
(* Collaborators outside minimax.ts: the i18n table t and the helpers of utils *)

Msg(tmpl, code, text) == [tmpl |-> tmpl, code |-> code, text |-> text]

Error(name, message) == [name |-> name, message |-> message]

\* t.minimaxConfigRequired
minimaxConfigRequired == Msg("minimaxConfigRequired", Absent, "")

\* t.minimaxApiError(status, text)
minimaxApiError(status, text) == Msg("minimaxApiError", status, text)

\* a string is truthy when it is not empty; every template of t has fixed text
TruthyMsg(m) == m.tmpl /= ""

\* maskString(str, showChars): the secret with only its ends shown
maskString(str, showChars) == [masked |-> str, shown |-> showChars]

\* calcRemainPercent(usedPercent): 100 - usedPercent, clamped to [0, 100]
calcRemainPercent(u) ==
    IF u.n >= 100 * u.d THEN [n |-> 0, d |-> 1]
    ELSE IF u.n <= 0 THEN [n |-> 100, d |-> 1]
    ELSE [n |-> 100 * u.d - u.n, d |-> u.d]

\* createProgressBar(percent): a bar proportional to percent
createProgressBar(percent) == [bar |-> percent]

\* formatDuration(seconds): hours and minutes, as in "1h0m"
formatDuration(seconds) == [h |-> seconds \div 3600, m |-> (seconds % 3600) \div 60]

\* fetchWithTimeout(url, options): one request; resolves to the response or
\* throws on timeout and on network failure
fetchWithTimeout(outcome) ==
    IF outcome.kind = "timeout" THEN Throw(Error("Error", Msg("timeout", Absent, "")))
    ELSE IF outcome.kind = "network" THEN Throw(Error("TypeError", Msg("fetch failed", Absent, "")))
    ELSE Return(outcome)

----------------------------------------------------------------------------
(* loadMiniMaxSession *)

\* the body of the try block: readFile, JSON.parse, config.session || null
loadSessionBody(f) ==
    IF f.kind = "missing" THEN Throw(Error("Error", Msg("ENOENT", Absent, "")))
    ELSE IF f.kind = "malformed" THEN Throw(Error("SyntaxError", Msg("JSON.parse", Absent, "")))
    ELSE IF f.kind = "null" THEN Throw(Error("TypeError", Msg("property of null", Absent, "session")))
    ELSE Return(IF TruthyStr(f.session) THEN f.session ELSE Absent)

\* const configPath = join(homedir(), ".config/opencode/minimax-session.json"),
\* evaluated before the try block
configPath(h) ==
    IF h = "unresolved"
    THEN Throw(Error("SystemError", Msg("uv_os_homedir returned ENOENT", Absent, "")))
    ELSE Return(Some(".config/opencode/minimax-session.json"))

loadMiniMaxSession(h, f) ==
    LET path == configPath(h)
        body == loadSessionBody(f)
    IN  IF path.threw THEN path
        ELSE IF body.threw THEN Return(Absent)
        ELSE body

----------------------------------------------------------------------------
(* fetchMiniMaxUsage, after fetchWithTimeout has resolved to a response *)

responseOk(response) == response.status \in 200..299

\* await response.text() (line 110) and await response.json() (line 114)
\* reject with the stream's error when the body cannot be read
fetchMiniMaxUsage(response) ==
    IF response.parse = "unreadable"
    THEN Throw(Error("TypeError", Msg("terminated", Absent, "")))
    ELSE IF ~responseOk(response)
    THEN Throw(Error("Error", minimaxApiError(Some(response.status), response.text)))
    ELSE IF response.parse = "syntaxError"
    THEN Throw(Error("SyntaxError", Msg("JSON.parse", Absent, "")))
    ELSE IF response.parse = "null"
    THEN Throw(Error("TypeError", Msg("property of null", Absent, "base_resp")))
    ELSE IF ~Has(response.base_resp)
    THEN Throw(Error("TypeError", Msg("property of undefined", Absent, "status_code")))
    ELSE LET base == Get(response.base_resp)
         IN  IF base.status_code /= Some(0)
             THEN Throw(Error("Error",
                      minimaxApiError(base.status_code,
                          IF TruthyStr(base.status_msg) THEN Get(base.status_msg)
                          ELSE "Unknown error")))
             ELSE Return([base_resp |-> response.base_resp, data |-> response.data])

----------------------------------------------------------------------------
(* formatMiniMaxUsage *)

\* const total = d.total_prompts ?? 0
totalOf(d) == Coalesce(d.total_prompts, 0)

\* used is taken to be the remaining count
usedOf_remaining(d) == Coalesce(d.used_prompts, Coalesce(d.remaining_prompts, totalOf(d)))

\* const used = d.used_prompts ?? total - (d.remaining_prompts ?? total)
usedOf(d) == Coalesce(d.used_prompts, totalOf(d) - Coalesce(d.remaining_prompts, totalOf(d)))

\* const remaining = d.remaining_prompts ?? total - used
remainingOf(d) == Coalesce(d.remaining_prompts, totalOf(d) - usedOf(d))

\* const usagePercent = d.usage_percentage ?? (total > 0 ? (used / total) * 100 : 0)
usagePercentOf(d) ==
    IF Has(d.usage_percentage) THEN [n |-> Get(d.usage_percentage), d |-> 1]
    ELSE IF totalOf(d) > 0 THEN [n |-> usedOf(d) * 100, d |-> totalOf(d)]
    ELSE [n |-> 0, d |-> 1]

\* the countdown is not clamped
resetSeconds_unclamped(next_reset_time, time) == (next_reset_time - time) \div 1000

\* Math.max(0, Math.floor((d.next_reset_time - Date.now()) / 1000))
resetSeconds(next_reset_time, time) == Max(0, (next_reset_time - time) \div 1000)

\* usagePercent >= HIGH_USAGE_THRESHOLD
highUsage(u) == u.n >= HIGH_USAGE_THRESHOLD * u.d

\* if (!d || (d.total_prompts == null && d.remaining_prompts == null))
noQuotaData(data) ==
    \/ ~Has(data)
    \/ (~Has(Get(data).total_prompts) /\ ~Has(Get(data).remaining_prompts))

headerLines(data, sess) ==
    <<[kind |-> "account",
       masked |-> maskString(sess, 8),
       plan |-> IF Has(data) /\ TruthyStr(Get(data).plan_name)
                THEN Some(Get(Get(data).plan_name)) ELSE Absent],
      [kind |-> "blank"]>>

formatMiniMaxUsage(resp, sess, time) ==
    IF noQuotaData(resp.data)
    THEN headerLines(resp.data, sess) \o <<[kind |-> "noQuotaData"]>>
    ELSE LET d == Get(resp.data)
             usagePercent == usagePercentOf(d)
             remainPercent == calcRemainPercent(usagePercent)
         IN  headerLines(resp.data, sess)
             \o <<[kind |-> "minimaxPromptLimit"],
                  [kind |-> "bar", bar |-> createProgressBar(remainPercent),
                   remaining |-> remainPercent],
                  [kind |-> "used", used |-> usedOf(d), total |-> totalOf(d)]>>
             \o (IF TruthyNum(d.next_reset_time)
                 THEN LET seconds == resetSeconds(Get(d.next_reset_time), time)
                      IN  <<[kind |-> "resetIn", seconds |-> seconds,
                             duration |-> formatDuration(seconds)]>>
                 ELSE <<>>)
             \o (IF highUsage(usagePercent)
                 THEN <<[kind |-> "blank"], [kind |-> "limitReached"]>>
                 ELSE <<>>)

----------------------------------------------------------------------------
(* queryMiniMaxUsage: the results it returns *)

\* return { success: false, error: t.minimaxConfigRequired }
configRequiredResult ==
    [success |-> FALSE, output |-> Absent, error |-> Some(minimaxConfigRequired)]

\* return { success: true, output: formatMiniMaxUsage(usage, session) }
successResult(text) ==
    [success |-> TRUE, output |-> Some(text), error |-> Absent]

\* the catch keeps a success flag and an output next to the error
failureResult_output(err) ==
    [success |-> TRUE, output |-> Some(<<>>), error |-> Some(err.message)]

\* return { success: false, error: err instanceof Error ? err.message : String(err) }
failureResult(err) ==
    [success |-> FALSE, output |-> Absent, error |-> Some(err.message)]

\* an exception raised by a helper of utils or by the i18n table while formatting
HelperError == Error("TypeError", Msg("helper", Absent, ""))

----------------------------------------------------------------------------
(* queryMiniMaxUsage: its steps *)

Init ==
    /\ pc = "idle"
    /\ queries = 0
    /\ home = "resolved"
    /\ file = [kind |-> "none", session |-> Absent]
    /\ session = Absent
    /\ net = NoNet
    /\ now = 0
    /\ httpCalls = 0
    /\ caught = Absent
    /\ escaped = Absent
    /\ result = Absent
    /\ trace = <<>>

\* the host calls queryMiniMaxUsage; loadMiniMaxSession runs to
\* `await readFile(...)`. When homedir() throws on the way, the promise of
\* loadMiniMaxSession is rejected and, the await of queryMiniMaxUsage being
\* outside its try, so is the promise of queryMiniMaxUsage.
\* Nothing of an earlier query is kept.
Invoke(h) ==
    /\ pc \in {"idle", "done"}
    /\ queries < MaxQueries
    /\ queries' = queries + 1
    /\ home' = h
    /\ file' = [kind |-> "none", session |-> Absent]
    /\ session' = Absent
    /\ net' = NoNet
    /\ now' = 0
    /\ httpCalls' = 0
    /\ caught' = Absent
    /\ result' = Absent
    /\ trace' = <<"load">>
    /\ IF configPath(h).threw
       THEN /\ escaped' = Some(configPath(h).value)
            /\ pc' = "done"
       ELSE /\ escaped' = Absent
            /\ pc' = "readFile"

\* readFile settles: loadMiniMaxSession returns, `if (!session)` returns the
\* config-required result, otherwise fetchMiniMaxUsage issues the request
SessionLoaded(f) ==
    /\ pc = "readFile"
    /\ file' = f
    /\ LET loaded == loadMiniMaxSession(home, f)
       IN  IF loaded.threw
           THEN /\ escaped' = Some(loaded.value)
                /\ pc' = "done"
                /\ UNCHANGED <<session, httpCalls, result, trace>>
           ELSE /\ session' = loaded.value
                /\ escaped' = escaped
                /\ IF ~TruthyStr(loaded.value)
                   THEN /\ result' = Some(configRequiredResult)
                        /\ pc' = "done"
                        /\ trace' = trace \o <<"return">>
                        /\ httpCalls' = httpCalls
                   ELSE /\ result' = result
                        /\ pc' = "http"
                        /\ trace' = trace \o <<"transport">>
                        /\ httpCalls' = httpCalls + 1
    /\ UNCHANGED <<queries, home, net, now, caught>>

\* a failed attempt is tried again, up to three requests
HttpSettled_retry(outcome) ==
    /\ pc = "http"
    /\ net' = outcome
    /\ LET settled == fetchWithTimeout(outcome)
       IN  IF settled.threw /\ httpCalls < 3
           THEN /\ httpCalls' = httpCalls + 1
                /\ trace' = trace \o <<"transport">>
                /\ UNCHANGED <<pc, caught, result>>
           ELSE IF settled.threw
           THEN /\ caught' = Some(settled.value)
                /\ result' = Some(failureResult(settled.value))
                /\ pc' = "done"
                /\ trace' = trace \o <<"return">>
                /\ UNCHANGED httpCalls
           ELSE /\ pc' = "body"
                /\ UNCHANGED <<caught, result, trace, httpCalls>>
    /\ UNCHANGED <<queries, home, file, session, now, escaped>>

\* fetchWithTimeout settles: a thrown error goes to the catch of
\* queryMiniMaxUsage, a response goes on to response.text() / response.json()
HttpSettled(outcome) ==
    /\ pc = "http"
    /\ net' = outcome
    /\ LET settled == fetchWithTimeout(outcome)
       IN  IF settled.threw
           THEN /\ caught' = Some(settled.value)
                /\ result' = Some(failureResult(settled.value))
                /\ pc' = "done"
                /\ trace' = trace \o <<"return">>
           ELSE /\ pc' = "body"
                /\ UNCHANGED <<caught, result, trace>>
    /\ UNCHANGED <<queries, home, file, session, now, httpCalls, escaped>>

\* the body is read: fetchMiniMaxUsage throws or returns the envelope, the
\* envelope is formatted at time `time`, and the result is returned; anything
\* thrown on the way is caught
BodyRead(time, helperThrows) ==
    /\ pc = "body"
    /\ LET fetched == fetchMiniMaxUsage(net)
       IN  IF fetched.threw
           THEN /\ caught' = Some(fetched.value)
                /\ result' = Some(failureResult(fetched.value))
                /\ trace' = trace \o <<"return">>
                /\ now' = now
           ELSE IF helperThrows
           THEN /\ caught' = Some(HelperError)
                /\ result' = Some(failureResult(HelperError))
                /\ trace' = trace \o <<"format", "return">>
                /\ now' = time
           ELSE /\ caught' = caught
                /\ result' = Some(successResult(formatMiniMaxUsage(fetched.value, Get(session), time)))
                /\ trace' = trace \o <<"format", "return">>
                /\ now' = time
    /\ pc' = "done"
    /\ UNCHANGED <<queries, home, file, session, net, httpCalls, escaped>>

Next ==
    \/ \E h \in Homes : Invoke(h)
    \/ \E f \in Files : SessionLoaded(f)
    \/ \E outcome \in NetOutcomes : HttpSettled(outcome)
    \/ \E time \in Nows, helperThrows \in BOOLEAN : BodyRead(time, helperThrows)

Spec == Init /\ [][Next]_vars

----------------------------------------------------------------------------
(* Vocabulary of the properties *)

\* the text lines.join("\n") is a non-empty string
TruthyText(lines) ==
    \/ Len(lines) > 1
    \/ (Len(lines) = 1 /\ lines[1].kind /= "blank")

Done == pc = "done"

Succeeded == Done /\ Has(result) /\ Get(result).success

Output == Get(Get(result).output)

Kinds(lines) == [i \in 1..Len(lines) |-> lines[i].kind]

HasLine(kind) == \E i \in 1..Len(Output) : Output[i].kind = kind

LineOf(kind) == Output[CHOOSE i \in 1..Len(Output) : Output[i].kind = kind]

\* no session can be read: there is no home directory to hold the session
\* file, or the file is missing, is not JSON, or has no non-empty session
CredentialAbsent ==
    \/ (queries > 0 /\ home = "unresolved")
    \/ file.kind \in {"missing", "malformed", "null"}
    \/ (file.kind = "object" /\ ~TruthyStr(file.session))

TransportFailed == net.kind \in {"timeout", "network"}

Data == Get(net.data)

EndsWithWarning ==
    /\ Len(Output) >= 2
    /\ Output[Len(Output)].kind = "limitReached"
    /\ Output[Len(Output) - 1].kind = "blank"

----------------------------------------------------------------------------
(* Properties *)

\* C1: every result queryMiniMaxUsage returns has success = true with a
\* non-empty output and no error, or success = false with a non-empty error
\* and no output; the credential-absent and the transport-failure paths carry
\* no output, the success path no error.
C1_ResultShape ==
    Has(result) =>
        LET r == Get(result)
        IN  /\ r.success => (Has(r.output) /\ TruthyText(Get(r.output)) /\ ~Has(r.error))
            /\ ~r.success => (Has(r.error) /\ TruthyMsg(Get(r.error)) /\ ~Has(r.output))
            /\ (CredentialAbsent \/ TransportFailed \/ Has(caught)) => ~Has(r.output)

C1_Witness ==
    /\ Succeeded
    /\ Kinds(Output) = <<"account", "blank", "minimaxPromptLimit", "bar", "used",
                         "resetIn", "blank", "limitReached">>
    /\ ~Has(Get(result).error)

\* C2: no exception leaves queryMiniMaxUsage: whatever the credential read,
\* the HTTP call and the formatting do, a finished call has returned a result
\* object, and an exception raised in transport, parsing or formatting has
\* become {success: false, error: <its message>}.
C2_NoFaultEscapes ==
    /\ escaped = Absent
    /\ Done => (Has(result) /\ Get(result).success \in BOOLEAN)
    /\ Has(caught) =>
          /\ Has(result)
          /\ ~Get(result).success
          /\ Get(result).error = Some(Get(caught).message)

\* C3: with the credential absent (no file, a file that is not JSON, no
\* non-empty session in it) the result is the config-required failure and the
\* query issues no HTTP request; a request is issued only after the session has
\* been loaded and found present.
C3_AbsentCredentialNoRequest ==
    /\ (Done /\ CredentialAbsent) =>
          /\ result = Some([success |-> FALSE, output |-> Absent,
                            error |-> Some(Msg("minimaxConfigRequired", Absent, ""))])
          /\ httpCalls = 0
          /\ net = NoNet
    /\ pc = "readFile" => httpCalls = 0
    /\ httpCalls > 0 => (file.kind = "object" /\ TruthyStr(file.session) /\ session = file.session)

\* C4: with a credential present, a response with a non-success status, or
\* with a success status and an envelope whose status_code is not 0, gives
\* {success: false, error: E}; E carries the HTTP status and the raw body in
\* the first case, the envelope's code and message in the second; both are
\* thrown as the same kind of error and nothing is formatted.
C4_ApiErrors ==
    (Done /\ net.kind = "response") =>
        /\ ~responseOk(net) =>
              /\ result = Some([success |-> FALSE, output |-> Absent,
                                error |-> Some(Msg("minimaxApiError", Some(net.status), net.text))])
              /\ Has(caught) /\ Get(caught).name = "Error"
              /\ trace = <<"load", "transport", "return">>
        /\ (responseOk(net) /\ net.parse = "object" /\ Has(net.base_resp)
              /\ Get(net.base_resp).status_code /= Some(0)) =>
              /\ Has(result) /\ ~Get(result).success /\ ~Has(Get(result).output)
              /\ Has(Get(result).error)
              /\ Get(Get(result).error).tmpl = "minimaxApiError"
              /\ Get(Get(result).error).code = Get(net.base_resp).status_code
              /\ TruthyStr(Get(net.base_resp).status_msg) =>
                    Get(Get(result).error).text = Get(Get(net.base_resp).status_msg)
              /\ Has(caught) /\ Get(caught).name = "Error"
              /\ trace = <<"load", "transport", "return">>

\* the counts the spec calls derivable: total with used, or total with remaining
DerivableCounts(d) ==
    Has(d.total_prompts) /\ (Has(d.used_prompts) \/ Has(d.remaining_prompts))

\* C5: a successful response without an explicit usage percentage and without
\* derivable counts (data absent, or neither total+used nor total+remaining)
\* is reported as exactly the header, a blank line and the "no quota data"
\* line.
C5_NoNumbersFromAbsentData ==
    (Succeeded /\ (~Has(net.data)
                   \/ (~Has(Data.usage_percentage) /\ ~DerivableCounts(Data)))) =>
        Kinds(Output) = <<"account", "blank", "noQuotaData">>

\* C6: whenever the data has an explicit usage_percentage p, the report shows
\* the remaining percentage 100 - p (bar and label), whatever total_prompts,
\* used_prompts and remaining_prompts are.
C6_ExplicitPercentageAuthoritative ==
    (Succeeded /\ Has(net.data) /\ Has(Data.usage_percentage)) =>
        /\ HasLine("bar")
        /\ LineOf("bar").remaining.n
              = (100 - Get(Data.usage_percentage)) * LineOf("bar").remaining.d

\* C7: without an explicit percentage and with total > 0, the remaining
\* percentage shown is 100 - used/total*100 clamped to [0, 100], where used is
\* total - remaining when used is absent and remaining is present; every
\* remaining percentage shown is within 0..100.
C7_RemainPercent ==
    Succeeded =>
        /\ HasLine("bar") =>
              LET rp == LineOf("bar").remaining
              IN  rp.d > 0 /\ 0 <= rp.n /\ rp.n <= 100 * rp.d
        /\ (Has(net.data) /\ ~Has(Data.usage_percentage) /\ DerivableCounts(Data)
              /\ Get(Data.total_prompts) > 0) =>
              LET total == Get(Data.total_prompts)
                  used == IF Has(Data.used_prompts) THEN Get(Data.used_prompts)
                          ELSE total - Get(Data.remaining_prompts)
                  rp == LineOf("bar").remaining
              IN  /\ HasLine("bar")
                  /\ used >= total => rp.n = 0
                  /\ used <= 0 => rp.n = 100 * rp.d
                  /\ (0 < used /\ used < total) =>
                        rp.n * total = (100 * total - 100 * used) * rp.d
                  /\ LineOf("bar").bar = [bar |-> rp]

C7_Witness ==
    /\ Succeeded
    /\ Has(net.data)
    /\ ~Has(Data.usage_percentage) /\ ~Has(Data.used_prompts)
    /\ Data.total_prompts = Some(100) /\ Data.remaining_prompts = Some(15)
    /\ HasLine("bar")
    /\ LineOf("bar").remaining.n = 15 * LineOf("bar").remaining.d
    /\ LineOf("used").used = 85

\* C8: a successful response ends with the high-usage warning block if and
\* only if the usage percentage (usage_percentage when supplied, otherwise
\* used/total*100) is at least 80.
C8_WarningIffHighUsage ==
    (Succeeded /\ Has(net.data)
       /\ (Has(Data.usage_percentage)
           \/ (DerivableCounts(Data) /\ Get(Data.total_prompts) > 0))) =>
        LET total == Get(Data.total_prompts)
            used == IF Has(Data.used_prompts) THEN Get(Data.used_prompts)
                    ELSE total - Get(Data.remaining_prompts)
            high == IF Has(Data.usage_percentage)
                    THEN Get(Data.usage_percentage) >= 80
                    ELSE used * 100 >= 80 * total
        IN  EndsWithWarning <=> high

\* C9: the countdown is never negative: the seconds given to formatDuration
\* are max(0, floor((next_reset_time - now) / 1000)), and 0 whenever
\* next_reset_time <= now.
C9_ResetNeverNegative ==
    Succeeded =>
        /\ HasLine("resetIn") <=>
              (HasLine("used") /\ TruthyNum(Data.next_reset_time))
        /\ HasLine("resetIn") =>
              LET reset == Get(Data.next_reset_time)
                  seconds == LineOf("resetIn").seconds
              IN  /\ seconds >= 0
                  /\ reset <= now => seconds = 0
                  /\ reset > now =>
                        (seconds * 1000 <= reset - now /\ reset - now < (seconds + 1) * 1000)

C9_Witness ==
    /\ Succeeded
    /\ HasLine("resetIn")
    /\ Data.next_reset_time = Some(4500)
    /\ now = 5000
    /\ LineOf("resetIn").seconds = 0

\* C10: a query with a credential present issues exactly one HTTP request and
\* never a second one; a failed attempt is returned at once; the steps run in
\* the order load, transport, format, return, and formatting is reached only
\* after a successful transport call.
C10_OneRequestInOrder ==
    /\ httpCalls <= 1
    /\ (Done /\ TruthyStr(session)) => httpCalls = 1
    /\ trace \in {<<>>, <<"load">>, <<"load", "return">>, <<"load", "transport">>,
                  <<"load", "transport", "return">>,
                  <<"load", "transport", "format", "return">>}
    /\ (Len(trace) >= 3 /\ trace[3] = "format") =>
          /\ net.kind = "response" /\ responseOk(net) /\ net.parse = "object"
          /\ Has(net.base_resp) /\ Get(net.base_resp).status_code = Some(0)
    /\ (pc = "http") => (trace = <<"load", "transport">> /\ httpCalls = 1)
    /\ (Done /\ TransportFailed) =>
          (trace = <<"load", "transport", "return">> /\ Has(result) /\ ~Get(result).success)

C10_Witness ==
    /\ Done
    /\ queries = 2
    /\ net.kind = "timeout"
    /\ httpCalls = 1
    /\ Has(result) /\ ~Get(result).success

====
